---------------------------- MODULE Spec2Model ----------------------------
(***************************************************************************)
(* A model of the openweathermap client library (src/src/lib.rs):          *)
(*   init()    builds the request URL from the location string, creates a  *)
(*             channel and spawns the polling thread;                      *)
(*   update()  polls the channel without blocking;                         *)
(*   weather() starts a session with poll_mins = 0 and spins on update()   *)
(*             until the first outcome that is not the LOADING sentinel.   *)
(*                                                                         *)
(* Strings that the code inspects character by character (the location)    *)
(* are sequences of one-character strings.  The literal pieces of the      *)
(* format! templates and the units, lang and api_key arguments, which the  *)
(* code only copies, are single tokens of the URL sequence.                *)
(***************************************************************************)
EXTENDS Integers, Sequences, FiniteSets, TLC

VARIABLES
    location,     \* init(location, ..): the location argument
    units,        \* init(.., units, ..)
    lang,         \* init(.., lang, ..)
    api_key,      \* init(.., api_key, ..)
    poll_mins,    \* init(.., poll_mins)
    url,          \* the request URL init() built (<<>> before init())
    period,       \* Duration::from_secs(60 * poll_mins), in seconds
    pc,           \* position of the spawned thread
    chan,         \* items sent on the mpsc channel and not yet received
    rx,           \* state of the caller's Receiver
    caller,       \* which entry point the caller used and where it stands
    emitted,      \* history: every item the thread passed to tx.send, in order
    gets,         \* history: the URL of every GET issued, in order
    trace,        \* history: the thread's steps (send, get, sleep, ...), in order
    returned,     \* history: every item update() returned as Some(..), in order
    updates,      \* history: how many times the caller called update()
    last_update,  \* result of the latest update() call
    result,       \* what weather() returned (<<>> while it has not)
    dropped_at,   \* history: how many steps the thread had taken when the
                  \* Receiver was dropped (-1 while it has not been)
    sessions,     \* SpecTwo: the sessions of two init() calls, by number
    channels,     \* SpecTwo: the queues of the channels created so far
    wide,         \* SpecPeriod: poll_mins and the period over the whole of u64
    first_poll    \* history: where the thread stood when the caller first
                  \* called update() ("none" while it has not)

vars == <<location, units, lang, api_key, poll_mins, url, period, pc, chan, rx,
          caller, emitted, gets, trace, returned, updates, last_update, result,
          dropped_at, sessions, channels, wide, first_poll>>

---------------------------------------------------------------------------
(* Bounds of the model *)

\* longest location string enumerated exhaustively over Alphabet
MaxLocLen == 3
\* most GET requests one session issues in a run
MaxGets == 3
\* most update() calls the caller makes in a run
MaxUpdates == 4
\* most GET requests each of the two sessions of SpecTwo issues in a run
MaxGetsEach == 1

---------------------------------------------------------------------------
(* Characters *)

AsciiDigits == {"0", "1", "2", "3", "4", "5", "6", "7", "8", "9"}

\* a decimal digit outside ASCII (ARABIC-INDIC DIGIT THREE), one character
ArabicThree == "U+0663"

\* \d of the regex crate is Unicode aware: any character of class Nd
IsRegexDigit(c) == c \in AsciiDigits \cup {ArabicThree}

\* \s of the regex crate
IsRegexSpace(c) == c \in {" ", "\t"}

DigitValue(c) ==
    CASE c = "0" -> 0 [] c = "1" -> 1 [] c = "2" -> 2 [] c = "3" -> 3
      [] c = "4" -> 4 [] c = "5" -> 5 [] c = "6" -> 6 [] c = "7" -> 7
      [] c = "8" -> 8 [] c = "9" -> 9

---------------------------------------------------------------------------
(* location.parse::<u64>()                                                 *)
(* The accumulator of the parser is kept as its decimal digits (most       *)
(* significant first, no leading zero; <<>> is 0), because the values      *)
(* reach 2^64.  Appending a digit is the parser's checked_mul(10) followed *)
(* by checked_add(digit); both fail exactly when the result exceeds        *)
(* u64::MAX.                                                               *)

\* u64::MAX = 18446744073709551615
U64Max == <<1, 8, 4, 4, 6, 7, 4, 4, 0, 7, 3, 7, 0, 9, 5, 5, 1, 6, 1, 5>>

RECURSIVE LexLeq(_, _)
\* a <= b for digit sequences of equal length
LexLeq(a, b) ==
    IF a = <<>> THEN TRUE
    ELSE IF a[1] # b[1] THEN a[1] < b[1]
    ELSE LexLeq(Tail(a), Tail(b))

\* u32::MAX = 4294967295
U32Max == <<4, 2, 9, 4, 9, 6, 7, 2, 9, 5>>

\* variant: the location is parsed as a u32
FitsU32(n) ==
    \/ Len(n) < Len(U32Max)
    \/ Len(n) = Len(U32Max) /\ LexLeq(n, U32Max)

\* the value with digits n fits in a u64
FitsU64(n) ==
    \/ Len(n) < Len(U64Max)
    \/ Len(n) = Len(U64Max) /\ LexLeq(n, U64Max)

\* acc * 10 + d, as digits
MulAdd(acc, d) == IF acc = <<>> /\ d = 0 THEN <<>> ELSE Append(acc, d)

RECURSIVE ParseDigits(_, _)
\* the digit loop of from_str_radix: Err on a non-digit or on overflow
ParseDigits(s, acc) ==
    IF s = <<>> THEN [ok |-> TRUE, val |-> acc]
    ELSE IF s[1] \notin AsciiDigits THEN [ok |-> FALSE, val |-> "InvalidDigit"]
    ELSE LET next == MulAdd(acc, DigitValue(s[1]))
         IN  IF FitsU64(next) THEN ParseDigits(Tail(s), next)
             ELSE [ok |-> FALSE, val |-> "PosOverflow"]

\* str::parse::<u64>: an optional leading "+", then at least one ASCII digit
ParseU64(s) ==
    IF s = <<>> THEN [ok |-> FALSE, val |-> "Empty"]
    ELSE LET digits == IF s[1] = "+" THEN Tail(s) ELSE s
         IN  IF digits = <<>> THEN [ok |-> FALSE, val |-> "InvalidDigit"]
             ELSE ParseDigits(digits, <<>>)

---------------------------------------------------------------------------
(* Regex::new(r"(-?\d+\.\d+)\s*,\s*(-?\d+\.\d+)").captures(location)       *)
(* Positions are 1-based; an end position is the index after the match.    *)
(* 0 stands for "no match".  Every repetition is greedy, and a shorter     *)
(* repetition never lets the rest match (what follows a run of digits or   *)
(* of spaces in the pattern is never a digit or a space), so the longest   *)
(* run is the one the matcher takes.                                       *)

RECURSIVE DigitRun(_, _)
\* the index after the longest run of \d starting at i
DigitRun(s, i) ==
    IF i <= Len(s) /\ IsRegexDigit(s[i]) THEN DigitRun(s, i + 1) ELSE i

RECURSIVE SpaceRun(_, _)
\* the index after the longest run of \s starting at i
SpaceRun(s, i) ==
    IF i <= Len(s) /\ IsRegexSpace(s[i]) THEN SpaceRun(s, i + 1) ELSE i

\* variant: the fraction is optional, -?\d+(\.\d+)?
MatchDecimal_optional_fraction(s, i) ==
    LET k  == IF i <= Len(s) /\ s[i] = "-" THEN i + 1 ELSE i
        d1 == DigitRun(s, k)
        d2 == DigitRun(s, d1 + 1)
    IN  IF d1 = k THEN 0
        ELSE IF d1 <= Len(s) /\ s[d1] = "." /\ d2 > d1 + 1 THEN d2 ELSE d1

\* variant: the pattern has no -? before the digits
MatchDecimal_unsigned(s, i) ==
    LET d1 == DigitRun(s, i)
        d2 == DigitRun(s, d1 + 1)
    IN  IF d1 > i /\ d1 <= Len(s) /\ s[d1] = "." /\ d2 > d1 + 1 THEN d2 ELSE 0

\* -?\d+\.\d+ starting at i: the index after the match, or 0
MatchDecimal(s, i) ==
    LET k  == IF i <= Len(s) /\ s[i] = "-" THEN i + 1 ELSE i
        d1 == DigitRun(s, k)
        d2 == DigitRun(s, d1 + 1)
    IN  IF d1 > k /\ d1 <= Len(s) /\ s[d1] = "." /\ d2 > d1 + 1 THEN d2 ELSE 0

\* the whole pattern anchored at i: the two groups, or ok = FALSE
MatchAt(s, i) ==
    LET e1 == MatchDecimal(s, i)
        w1 == SpaceRun(s, e1)
        w2 == SpaceRun(s, w1 + 1)
        e2 == MatchDecimal(s, w2)
    IN  IF e1 # 0 /\ w1 <= Len(s) /\ s[w1] = "," /\ e2 # 0
        THEN [ok |-> TRUE, g1 |-> SubSeq(s, i, e1 - 1), g2 |-> SubSeq(s, w2, e2 - 1)]
        ELSE [ok |-> FALSE, g1 |-> <<>>, g2 |-> <<>>]

\* captures(): the leftmost match anywhere in the string (the pattern is
\* not anchored), or ok = FALSE for None
Captures(s) ==
    LET starts == {i \in 1..Len(s) : MatchAt(s, i).ok}
    IN  IF starts = {} THEN [ok |-> FALSE, g1 |-> <<>>, g2 |-> <<>>]
        ELSE MatchAt(s, CHOOSE i \in starts : \A j \in starts : i <= j)

---------------------------------------------------------------------------
(* The request URL, lib.rs 180-195 *)

Endpoint == "https://api.openweathermap.org/data/2.5/weather?"

\* the shared tail of the three templates: &units={}&lang={}&appid={}
CommonParams(u, l, k) == <<"&units=", u, "&lang=", l, "&appid=", k>>

\* let url = match location.parse::<u64>().is_ok() { .. }
RequestUrl(loc, u, l, k) ==
    IF ParseU64(loc).ok
    THEN <<Endpoint, "id=">> \o loc \o CommonParams(u, l, k)
    ELSE LET caps == Captures(loc)
         IN  IF caps.ok
             THEN <<Endpoint, "lat=">> \o caps.g1 \o <<"&lon=">> \o caps.g2
                      \o CommonParams(u, l, k)
             ELSE <<Endpoint, "q=">> \o loc \o CommonParams(u, l, k)

---------------------------------------------------------------------------
(* Items of the channel: Result<CurrentWeather, String> *)

\* pub const LOADING: &str = "loading...";
LOADING == "loading..."

Ok(w) == [ok |-> TRUE, val |-> w]
Err(e) == [ok |-> FALSE, val |-> e]

\* Option<Result<CurrentWeather, String>>
None == [some |-> FALSE]
Some(item) == [some |-> TRUE, item |-> item]

---------------------------------------------------------------------------
(* What reqwest::blocking::get(&url) can come back with.  The transport,   *)
(* the provider and the JSON schema are outside the library: every GET     *)
(* draws one of these outcomes.                                            *)

OK == 200

\* status codes of the provider that the model draws from
Statuses == {OK, 401}

\* StatusCode::to_string(): the code and its canonical reason
StatusText(st) ==
    CASE st = 200 -> "200 OK"
      [] st = 401 -> "401 Unauthorized"

\* response bodies: two that hold a complete CurrentWeather document and
\* one that lacks a required field
Bodies == {"report_a", "report_b", "no_coord"}

\* serde_json::from_str::<CurrentWeather>(body)
from_str(body) ==
    CASE body = "report_a" -> Ok("CurrentWeather_a")
      [] body = "report_b" -> Ok("CurrentWeather_b")
      [] body = "no_coord" -> Err("missing field coord at line 1 column 2")

\* Err(_e): no response at all
TransportError == [kind |-> "error"]

\* Ok(response): a status, whether response.text() can read the body, and
\* the body.  The body is read only under StatusCode::OK.
Response(st, readable, body) ==
    [kind |-> "response", status |-> st, readable |-> readable, body |-> body]

GetOutcomes ==
    {TransportError}
        \cup {Response(st, TRUE, "no_coord") : st \in Statuses \ {OK}}
        \cup {Response(OK, FALSE, "no_coord")}
        \cup {Response(OK, TRUE, b) : b \in Bodies}

---------------------------------------------------------------------------
(* The arguments the model draws from *)

Alphabet == {"1", "9", ".", ",", "-", "+", " ", "B", ArabicThree}

RECURSIVE StringsUpTo(_)
\* every string over Alphabet of length at most n
StringsUpTo(n) ==
    IF n = 0 THEN {<<>>}
    ELSE LET shorter == StringsUpTo(n - 1)
         IN  shorter \cup {Append(s, c) : s \in {t \in shorter : Len(t) = n - 1},
                                           c \in Alphabet}

\* the examples of the documentation (lib.rs 153-157) and the edges of u64
Samples ==
    { <<"2", "9", "5", "0", "1", "5", "9">>,
      <<"5", "2", ".", "5", "2", "4", "4", ",", "1", "3", ".", "4", "1", "0", "5">>,
      <<"B", "e", "r", "l", "i", "n", ",", "D", "E">>,
      <<"1", "8", "4", "4", "6", "7", "4", "4", "0", "7",
        "3", "7", "0", "9", "5", "5", "1", "6", "1", "5">>,
      <<"1", "8", "4", "4", "6", "7", "4", "4", "0", "7",
        "3", "7", "0", "9", "5", "5", "1", "6", "1", "6">>,
      <<"9", "9", "9", "9", "9", "9", "9", "9", "9", "9",
        "9", "9", "9", "9", "9", "9", "9", "9", "9", "9">>,
      <<"0", "0", "0", "0", "0", "0", "0", "0", "0", "0", "0",
        "0", "0", "0", "0", "0", "0", "0", "0", "0", "0", "7">>,
      <<"-", "1", ".", "5", " ", ",", " ", "-", "0", ".", "2", "5">>,
      <<ArabicThree, ".", ArabicThree, ",", ArabicThree, ".", ArabicThree>>,
      <<"+", "2", "9", "5", "0", "1", "5", "9">> }

\* decimals as the regex reads them: sign, digits, dot, digits
Decimals ==
    { <<"1", ".", "9">>, <<"-", "1", ".", "9">>, <<"1", "9", ".", "1">>,
      <<"-", "9", ".", "1", "1">> }

\* a comma with the whitespace \s* allows around it
Separators ==
    { <<",">>, <<" ", ",">>, <<",", " ">>, <<" ", ",", " ">>, <<"\t", ",", " ", " ">> }

\* strings of the form <decimal>,<decimal>
CoordinatePairs == {a \o sep \o b : a \in Decimals, sep \in Separators, b \in Decimals}

\* text put before or after a pair of coordinates
Affixes == {<<>>, <<"B">>, <<" ">>, <<"1", ".">>, <<"9">>, <<",", "D", "E">>}

\* a pair of coordinates with other text around it
EmbeddedPairs ==
    {p \o c \o q : p \in Affixes, q \in Affixes,
                   c \in {<<"1", ".", "9", ",", "-", "1", ".", "9">>}}

Locations ==
    StringsUpTo(MaxLocLen) \cup Samples \cup CoordinatePairs \cup EmbeddedPairs

\* the locations the sessions of Spec are started with: an id, a pair of
\* coordinates and a name
SessionLocations ==
    { <<"2", "9", "5", "0", "1", "5", "9">>,
      <<"5", "2", ".", "5", "2", "4", "4", ",", "1", "3", ".", "4", "1", "0", "5">>,
      <<"B", "e", "r", "l", "i", "n", ",", "D", "E">> }

Units == {"metric", "imperial", "standard"}
Langs == {"en", "de"}
Keys == {"APIKEY"}

\* the poll_mins arguments of init()
PollMins == {0, 10}

---------------------------------------------------------------------------
(* The channel *)

\* tx.send(item).unwrap_or(()): the item is queued while the Receiver
\* lives; with the Receiver gone send returns Err, which is ignored
send(ch, r, item) == IF r = "alive" THEN Append(ch, item) ELSE ch

\* what tx.send(..) returns: Err(SendError) once the Receiver is gone
send_result(r) == IF r = "alive" THEN "Ok" ELSE "SendError"

\* variant: .unwrap() in place of .unwrap_or(()), a failed send panics
unwrap(res, next) == IF res = "Ok" THEN next ELSE "panicked"

\* .unwrap_or(()) on the result of a send (lib.rs 200, 206, 212, 214): the
\* result is discarded and the thread goes on to next
unwrap_or(res, next) == next

\* variant: the pending items are dropped with the Sender
drop_sender_discarding(ch) == <<>>

\* the thread ends (lib.rs 208 break, 204 panic) and tx, which the closure
\* owns (lib.rs 199), is dropped: the items already sent stay queued for
\* the Receiver
drop_sender(ch) == ch

\* the positions in which the thread has ended
Ended == {"exited", "panicked"}

\* variant: the item is returned but stays queued
try_recv_peek(ch) ==
    IF ch = <<>> THEN [ret |-> None, rest |-> ch]
    ELSE [ret |-> Some(Head(ch)), rest |-> ch]

\* variant: the newest pending item is returned, the older ones are skipped
try_recv_newest(ch) ==
    IF ch = <<>> THEN [ret |-> None, rest |-> ch]
    ELSE [ret |-> Some(ch[Len(ch)]), rest |-> <<>>]

\* receiver.try_recv() as update() uses it (lib.rs 235-240): the oldest
\* pending item, or None when nothing is pending (Empty and Disconnected
\* are not told apart)
try_recv(ch) ==
    IF ch = <<>> THEN [ret |-> None, rest |-> ch]
    ELSE [ret |-> Some(Head(ch)), rest |-> Tail(ch)]

---------------------------------------------------------------------------
(* The spawned thread, lib.rs 199-219 *)

\* Duration::from_secs(60 * poll_mins), in seconds
from_mins(pm) == 60 * pm

\* u64 values too large for the model's integers are kept as four 16-bit
\* limbs, least significant first
Limb == 65536
Zero64 == <<0, 0, 0, 0>>

\* the limbs of l * m + carry, with the limb that overflows 64 bits last
RECURSIVE MulLimbs(_, _, _)
MulLimbs(l, m, carry) ==
    IF l = <<>> THEN <<carry>>
    ELSE LET p == Head(l) * m + carry
         IN  <<p % Limb>> \o MulLimbs(Tail(l), m, p \div Limb)

\* lib.rs 197: 60 * poll_mins in u64.  With overflow checks (the default of
\* a debug build) a product beyond u64 panics; without them (the default of
\* a release build) it is reduced modulo 2^64.
mul60(pm, checks) ==
    LET p == MulLimbs(pm, 60, 0)
    IN  IF p[5] # 0 /\ checks THEN [panic |-> TRUE, val |-> Zero64]
        ELSE [panic |-> FALSE, val |-> SubSeq(p, 1, 4)]

\* lib.rs 207: period == Duration::new(0, 0), on a period kept as limbs
secs(per) == IF per = Zero64 THEN 0 ELSE 1

\* What one iteration of the loop does with the outcome of the GET: the
\* items it sends and where the thread goes next, one operator per arm of
\* the match.

\* variant: a transport error re-sends the placeholder
on_transport_error_loading == [sends |-> <<Err(LOADING)>>, next |-> "loop"]

\* variant: a transport error is followed by the sleep
on_transport_error_sleep == [sends |-> <<>>, next |-> "sleep"]

\* lib.rs 216: Err(_e) => ()
on_transport_error == [sends |-> <<>>, next |-> "loop"]

\* variant: a status other than OK ends the thread
on_status_fatal(st) == [sends |-> <<Err(StatusText(st))>>, next |-> "exited"]

\* lib.rs 214: _ => tx.send(Err(response.status().to_string()))
on_status(st) == [sends |-> <<Err(StatusText(st))>>, next |-> "loop"]

\* lib.rs 204: response.text().unwrap() on a body that cannot be read
on_unreadable == [sends |-> <<>>, next |-> "panicked"]

\* variant: a parse error ends the thread
on_parse_error_break(e) == [sends |-> <<Err(e)>>, next |-> "exited"]

\* lib.rs 212: Err(e) => tx.send(Err(e.to_string()))
on_parse_error(e) == [sends |-> <<Err(e)>>, next |-> "loop"]

\* variant: the break is missing
on_parsed_no_break(w, per) == [sends |-> <<Ok(w)>>, next |-> "sleep"]

\* variant: the sleep is missing
on_parsed_no_sleep(w, per) ==
    [sends |-> <<Ok(w)>>, next |-> IF per = 0 THEN "exited" ELSE "loop"]

\* lib.rs 205-211: send, break when the period is zero, sleep otherwise
on_parsed(w, per) ==
    [sends |-> <<Ok(w)>>, next |-> IF per = 0 THEN "exited" ELSE "sleep"]

\* lib.rs 202-217: the match on the outcome r of the GET
handle(r, per) ==
    IF r.kind = "error" THEN on_transport_error
    ELSE IF r.status # OK THEN on_status(r.status)
    ELSE IF ~r.readable THEN on_unreadable
    ELSE LET parsed == from_str(r.body)
         IN  IF parsed.ok THEN on_parsed(parsed.val, per)
             ELSE on_parse_error(parsed.val)

RECURSIVE send_all(_, _, _)
send_all(ch, r, items) ==
    IF items = <<>> THEN ch ELSE send_all(send(ch, r, Head(items)), r, Tail(items))

Step(op, arg) == [op |-> op, arg |-> arg]


args == <<location, units, lang, api_key>>
two == <<sessions, channels>>

\* the two sessions of SpecTwo
Sids == {1, 2}

\* init() of SpecPeriod before it is called with poll_mins = pm
NotCalled(pm) == [poll_mins |-> pm, period |-> Zero64, pc |-> "not called"]

\* a session before its init() call
Unstarted ==
    [url |-> <<>>, period |-> 0, pc |-> "unspawned", tx |-> 0, rx |-> "none",
     emitted |-> <<>>, gets |-> <<>>, returned |-> <<>>]
history == <<emitted, gets, trace>>
consumer == <<returned, updates, last_update, result>>

\* the body of init(), lib.rs 178-222: build the URL, compute the period,
\* create the channel, spawn the thread, return the Receiver
init_session(pm) ==
    /\ pc = "unspawned"
    /\ poll_mins' = pm
    /\ url' = RequestUrl(location, units, lang, api_key)
    /\ period' = from_mins(pm)
    /\ chan' = <<>>
    /\ rx' = "alive"
    /\ pc' = "loading"
    /\ UNCHANGED <<first_poll, wide, two, args, dropped_at, history, consumer>>

\* the caller calls init() and keeps the Receiver for update()
init ==
    \E pm \in PollMins :
        /\ init_session(pm)
        /\ caller' = "update"

\* the caller calls weather(), lib.rs 271: init(.., 0), then the loop
weather ==
    /\ init_session(0)
    /\ caller' = "spin"

\* lib.rs 200: tx.send(Err(LOADING.to_string())).unwrap_or(())
thread_loading ==
    /\ pc = "loading"
    /\ chan' = send(chan, rx, Err(LOADING))
    /\ emitted' = Append(emitted, Err(LOADING))
    /\ trace' = Append(trace, Step("send", Err(LOADING)))
    /\ pc' = unwrap_or(send_result(rx), "loop")
    /\ UNCHANGED <<first_poll, wide, two, args, dropped_at, poll_mins, url, period, rx, caller, gets, consumer>>

\* lib.rs 202: reqwest::blocking::get(&url) is issued; the thread blocks
thread_get ==
    /\ pc = "loop"
    /\ Len(gets) < MaxGets
    /\ gets' = Append(gets, url)
    /\ trace' = Append(trace, Step("get", url))
    /\ pc' = "request"
    /\ UNCHANGED <<first_poll, wide, two, args, dropped_at, poll_mins, url, period, chan, rx, caller, emitted, consumer>>

\* lib.rs 202-217: the GET comes back and the match classifies it
thread_response ==
    /\ pc = "request"
    /\ \E r \in GetOutcomes :
        LET h == handle(r, period)
        IN  /\ chan' = IF h.next \in Ended
                        THEN drop_sender(send_all(chan, rx, h.sends))
                        ELSE send_all(chan, rx, h.sends)
            /\ emitted' = emitted \o h.sends
            /\ trace' = Append(trace, Step("response", r))
                            \o [i \in 1..Len(h.sends) |-> Step("send", h.sends[i])]
            /\ pc' = IF h.sends = <<>> THEN h.next
                     ELSE unwrap_or(send_result(rx), h.next)
    /\ UNCHANGED <<first_poll, wide, two, args, dropped_at, poll_mins, url, period, rx, caller, gets, consumer>>

\* lib.rs 210: thread::sleep(period) returns
thread_wake ==
    /\ pc = "sleep"
    /\ trace' = Append(trace, Step("sleep", period))
    /\ pc' = "loop"
    /\ UNCHANGED <<first_poll, wide, two, args, dropped_at, poll_mins, url, period, chan, rx, caller, emitted, gets,
                   consumer>>

---------------------------------------------------------------------------
(* The caller *)

\* update(&receiver), lib.rs 235-240
update ==
    /\ caller = "update"
    /\ rx = "alive"
    /\ updates < MaxUpdates
    /\ LET t == try_recv(chan)
       IN  /\ last_update' = t.ret
           /\ chan' = t.rest
           /\ returned' = IF t.ret.some THEN Append(returned, t.ret.item)
                          ELSE returned
    /\ updates' = updates + 1
    /\ first_poll' = IF first_poll = "none" THEN pc ELSE first_poll
    /\ UNCHANGED <<wide, two, args, dropped_at, poll_mins, url, period, pc, rx, caller, history, result>>

\* the caller drops the Receiver: what is still queued is dropped with it
drop_receiver ==
    /\ caller = "update"
    /\ rx = "alive"
    /\ rx' = "dropped"
    /\ chan' = <<>>
    /\ caller' = "gone"
    /\ dropped_at' = Len(trace)
    /\ UNCHANGED <<first_poll, wide, two, args, poll_mins, url, period, pc, history, consumer>>

\* variant: every received item ends the loop
is_final_any(item) == TRUE

\* variant: only Ok(current) ends the loop
is_final_ok_only(item) == item.ok

\* lib.rs 274-280: Ok(current) returns, Err(e) returns if e != LOADING
is_final(item) == item.ok \/ item.val # LOADING

\* one turn of the loop of weather(), lib.rs 272-284: update(&r), return
\* on Ok and on an Err other than LOADING (r is dropped on return)
weather_poll ==
    /\ caller = "spin"
    /\ LET t == try_recv(chan)
           done == t.ret.some /\ is_final(t.ret.item)
       IN  /\ last_update' = t.ret
           /\ returned' = IF t.ret.some THEN Append(returned, t.ret.item)
                          ELSE returned
           /\ IF done
              THEN /\ result' = <<t.ret.item>>
                   /\ caller' = "returned"
                   /\ rx' = "dropped"
                   /\ chan' = <<>>
                   /\ dropped_at' = Len(trace)
              ELSE /\ chan' = t.rest
                   /\ UNCHANGED <<result, caller, rx, dropped_at>>
    /\ first_poll' = IF first_poll = "none" THEN pc ELSE first_poll
    /\ UNCHANGED <<wide, two, args, poll_mins, url, period, pc, history, updates>>

---------------------------------------------------------------------------
(* Specifications *)

\* nothing has been called yet; the arguments are drawn here
InitSession(locs, us, ls) ==
    /\ location \in locs
    /\ units \in us
    /\ lang \in ls
    /\ api_key \in Keys
    /\ poll_mins = 0
    /\ url = <<>>
    /\ period = 0
    /\ pc = "unspawned"
    /\ chan = <<>>
    /\ rx = "none"
    /\ caller = "idle"
    /\ emitted = <<>>
    /\ gets = <<>>
    /\ trace = <<>>
    /\ returned = <<>>
    /\ updates = 0
    /\ last_update = None
    /\ result = <<>>
    /\ dropped_at = -1
    /\ first_poll = "none"
    /\ sessions = [i \in Sids |-> Unstarted]
    /\ channels = <<>>

InitWith(locs, us, ls) == InitSession(locs, us, ls) /\ wide = NotCalled(Zero64)

Init == InitWith(SessionLocations, {"metric"}, {"en"})

Next ==
    \/ init
    \/ weather
    \/ thread_loading
    \/ thread_get
    \/ thread_response
    \/ thread_wake
    \/ update
    \/ drop_receiver
    \/ weather_poll

\* sessions: the thread and the caller interleaved
Spec == Init /\ [][Next]_vars

\* Spec with the thread and the loop of weather() scheduled fairly: a step
\* of the thread (lib.rs 199-219) or a turn of the loop of weather() (lib.rs
\* 272-284) that stays possible is eventually taken.  Which outcome a GET has
\* is left open, so the transport may fail every time.
FairSpec ==
    /\ Spec
    /\ WF_vars(thread_loading)
    /\ WF_vars(thread_get)
    /\ WF_vars(thread_response)
    /\ WF_vars(thread_wake)
    /\ WF_vars(weather_poll)

\* lib.rs 180-195 alone: the URL init() builds for the location
request_url ==
    /\ url = <<>>
    /\ url' = RequestUrl(location, units, lang, api_key)
    /\ UNCHANGED <<first_poll, wide, two, args, dropped_at, poll_mins, period, pc, chan, rx, caller, history, consumer>>

InitUrl == InitWith(Locations, Units, Langs)

NextUrl == request_url

\* the request builder over every location of Locations
SpecUrl == InitUrl /\ [][NextUrl]_vars

single == <<args, poll_mins, url, period, pc, chan, rx, caller, history, consumer,
            dropped_at, first_poll>>

\* the location of each of the two init() calls: an id and a name
TwoLocation(i) ==
    IF i = 1 THEN <<"2", "9", "5", "0", "1", "5", "9">>
    ELSE <<"B", "e", "r", "l", "i", "n", ",", "D", "E">>

---------------------------------------------------------------------------
(* The period over the whole range of poll_mins, lib.rs 197 and 205-211 *)

\* limbs from which the poll_mins values of SpecPeriod are made: they give
\* 0, 1, 2^62, 2^64 - 1 and both sides of (2^64 - 1) \div 60 =
\* 307445734561825860 = <<17476, 17476, 17476, 1092>>
LimbValues == {0, 1, 1092, 16384, 17476, 17477, 65535}

\* init(.., poll_mins), lib.rs 197: the period is computed before the
\* thread is spawned, in a build with or without overflow checks
wide_init ==
    /\ wide.pc = "not called"
    /\ \E checks \in BOOLEAN :
        LET p == mul60(wide.poll_mins, checks)
        IN  wide' = [wide EXCEPT !.period = p.val,
                                 !.pc = IF p.panic THEN "init panicked" ELSE "loop"]
    /\ UNCHANGED <<two, single>>

\* lib.rs 205-211: the thread's first Success
wide_success ==
    /\ wide.pc = "loop"
    /\ wide' = [wide EXCEPT !.pc = on_parsed("report_a", secs(wide.period)).next]
    /\ UNCHANGED <<two, single>>

InitPeriod ==
    /\ InitSession({TwoLocation(1)}, {"metric"}, {"en"})
    /\ \E pm \in [1..4 -> LimbValues] : wide = NotCalled(pm)

NextPeriod == wide_init \/ wide_success

\* init() and the first Success for poll_mins over the range of u64
SpecPeriod == InitPeriod /\ [][NextPeriod]_vars

---------------------------------------------------------------------------
(* Two sessions, lib.rs 178-240 once per session.  Each init() call       *)
(* creates its own channel and its own thread; a session is a record, and  *)
(* the steps are those of Spec taken by session i.                         *)

\* variant: one process-wide channel, created by the first call
mpsc_channel_global(chs) ==
    [id |-> 1, chans |-> IF chs = <<>> THEN <<<<>>>> ELSE chs]

\* lib.rs 198: let (tx, rx) = mpsc::channel(): a new, empty channel
mpsc_channel(chs) == [id |-> Len(chs) + 1, chans |-> Append(chs, <<>>)]

\* init(), lib.rs 178-222, called for session i
two_init(i) ==
    /\ sessions[i].pc = "unspawned"
    /\ \E pm \in PollMins :
        LET c == mpsc_channel(channels)
        IN  /\ sessions' = [sessions EXCEPT ![i] =
                   [@ EXCEPT !.url = RequestUrl(TwoLocation(i), units, lang, api_key),
                             !.period = from_mins(pm),
                             !.pc = "loading",
                             !.tx = c.id,
                             !.rx = "alive"]]
            /\ channels' = c.chans
    /\ UNCHANGED <<wide, single>>

\* lib.rs 200 in the thread of session i
two_loading(i) ==
    LET s == sessions[i]
    IN  /\ s.pc = "loading"
        /\ channels' = [channels EXCEPT ![s.tx] = send(@, s.rx, Err(LOADING))]
        /\ sessions' = [sessions EXCEPT ![i] =
               [@ EXCEPT !.emitted = Append(@, Err(LOADING)),
                         !.pc = unwrap_or(send_result(s.rx), "loop")]]
        /\ UNCHANGED <<wide, single>>

\* lib.rs 202 in the thread of session i: the GET is issued
two_get(i) ==
    LET s == sessions[i]
    IN  /\ s.pc = "loop"
        /\ Len(s.gets) < MaxGetsEach
        /\ sessions' = [sessions EXCEPT ![i] =
               [@ EXCEPT !.gets = Append(@, s.url), !.pc = "request"]]
        /\ UNCHANGED <<wide, channels, single>>

\* lib.rs 202-217 in the thread of session i: the GET comes back
two_response(i) ==
    LET s == sessions[i]
    IN  /\ s.pc = "request"
        /\ \E r \in GetOutcomes :
            LET h == handle(r, s.period)
            IN  /\ channels' = [channels EXCEPT ![s.tx] =
                       IF h.next \in Ended
                       THEN drop_sender(send_all(@, s.rx, h.sends))
                       ELSE send_all(@, s.rx, h.sends)]
                /\ sessions' = [sessions EXCEPT ![i] =
                       [@ EXCEPT !.emitted = @ \o h.sends,
                                 !.pc = IF h.sends = <<>> THEN h.next
                                        ELSE unwrap_or(send_result(s.rx), h.next)]]
        /\ UNCHANGED <<wide, single>>

\* lib.rs 210 in the thread of session i
two_wake(i) ==
    /\ sessions[i].pc = "sleep"
    /\ sessions' = [sessions EXCEPT ![i] = [@ EXCEPT !.pc = "loop"]]
    /\ UNCHANGED <<wide, channels, single>>

\* update(&receiver), lib.rs 235-240, on the Receiver of session i
two_update(i) ==
    LET s == sessions[i]
        t == try_recv(channels[s.tx])
    IN  /\ s.rx = "alive"
        /\ channels' = [channels EXCEPT ![s.tx] = t.rest]
        /\ sessions' = [sessions EXCEPT ![i] =
               [@ EXCEPT !.returned = IF t.ret.some THEN Append(@, t.ret.item) ELSE @]]
        /\ UNCHANGED <<wide, single>>

\* the caller drops the Receiver of session i
two_drop(i) ==
    LET s == sessions[i]
    IN  /\ s.rx = "alive"
        /\ channels' = [channels EXCEPT ![s.tx] = <<>>]
        /\ sessions' = [sessions EXCEPT ![i] = [@ EXCEPT !.rx = "dropped"]]
        /\ UNCHANGED <<wide, single>>

InitTwo == InitWith({TwoLocation(1)}, {"metric"}, {"en"})

NextTwo ==
    \E i \in Sids :
        \/ two_init(i)
        \/ two_loading(i)
        \/ two_get(i)
        \/ two_response(i)
        \/ two_wake(i)
        \/ two_update(i)
        \/ two_drop(i)

\* two sessions, their threads and their callers interleaved
SpecTwo == InitTwo /\ [][NextTwo]_vars

---------------------------------------------------------------------------
(* Vocabulary of the properties *)

IsLoading(item) == item = Err(LOADING)
IsSuccess(item) == item.ok
IsFailure(item) == ~item.ok /\ item.val # LOADING
NotLoading(item) == ~IsLoading(item)

Last(seq) == seq[Len(seq)]
IsPrefix(a, b) == Len(a) <= Len(b) /\ SubSeq(b, 1, Len(a)) = a

Successes(seq) == SelectSeq(seq, IsSuccess)
Outcomes(seq) == SelectSeq(seq, NotLoading)

Started == pc # "unspawned"
ZeroMode == Started /\ poll_mins = 0
IntervalMode == Started /\ poll_mins > 0

IsSend(step) == step.op = "send"
IsGet(step) == step.op = "get"

---------------------------------------------------------------------------
(* C1..C6: the placeholder, single-shot mode, weather(), update() *)

\* C1: the thread's first step is to send Err(LOADING), before any GET;
\* Loading is the first item emitted and the first item on the channel, it
\* is emitted once, and every later emission is a Success or a Failure.
C1_LoadingOnceAndFirst ==
    /\ pc \notin {"unspawned", "loading"} => emitted # <<>>
    /\ trace # <<>> => trace[1] = Step("send", Err(LOADING))
    /\ gets # <<>> => emitted # <<>>
    /\ emitted # <<>> => IsLoading(emitted[1])
    /\ \A i \in 2..Len(emitted) : IsSuccess(emitted[i]) \/ IsFailure(emitted[i])
    /\ returned \o chan # <<>> => IsLoading((returned \o chan)[1])

\* C1 witness: a GET was issued and something was emitted after Loading
C1_Witness == Len(gets) >= 2 /\ Len(emitted) >= 3

\* C2 as claimed: with poll_mins = 0 at most one Success or Failure is
\* emitted, and after it the thread has stopped and done nothing more.
C2_Original ==
    ZeroMode =>
        /\ Len(Outcomes(emitted)) <= 1
        /\ Len(Outcomes(emitted)) = 1 =>
              /\ pc = "exited"
              /\ Last(trace) = Step("send", Last(emitted))

\* C2 amended: with poll_mins = 0 at most one Success is emitted; it is the
\* last emission and the last step of the thread, which has stopped.  A
\* Failure does not stop the thread: after emitting it the thread is back
\* at the top of the loop, about to issue the next GET.
C2_StopsOnSuccessOnly ==
    ZeroMode =>
        /\ Len(Successes(emitted)) <= 1
        /\ \A i \in 1..Len(emitted) : IsSuccess(emitted[i]) => i = Len(emitted)
        /\ (emitted # <<>> /\ IsSuccess(Last(emitted))) =>
              /\ pc = "exited"
              /\ Last(trace) = Step("send", Last(emitted))
        /\ (trace # <<>> /\ IsSend(Last(trace)) /\ IsFailure(Last(trace).arg)) =>
              pc = "loop"
        /\ pc = "exited" => emitted # <<>> /\ IsSuccess(Last(emitted))

\* C2 witness: a single-shot session that emitted two Failures and then the
\* Success it stopped on
C2_Witness ==
    /\ ZeroMode
    /\ pc = "exited"
    /\ Len(emitted) = 4
    /\ IsFailure(emitted[2])
    /\ IsFailure(emitted[3])
    /\ IsSuccess(emitted[4])

\* C3: with poll_mins = 0, once a Success has been emitted it is the only
\* one, the thread has exited, and no step emits or issues a GET any more.
C3_ExitsAfterFirstSuccess ==
    /\ [](ZeroMode /\ Successes(emitted) # <<>> =>
              pc = "exited" /\ Len(Successes(emitted)) = 1)
    /\ [][ZeroMode /\ Successes(emitted) # <<>> =>
              UNCHANGED <<pc, emitted, gets, trace>>]_vars

\* C3 witness: the caller went on polling after the thread had exited
C3_Witness ==
    /\ ZeroMode
    /\ pc = "exited"
    /\ Successes(returned) # <<>>
    /\ last_update = None

\* C4: while weather() spins it has returned nothing; what it returns is
\* never Loading, and it is the first item of the emission order that is
\* not Loading: Ok(report) for a Success, Err(message) for a Failure.
C4_WeatherReturnsFirstOutcome ==
    /\ caller = "spin" => result = <<>>
    /\ caller = "returned" =>
          /\ Len(result) = 1
          /\ NotLoading(result[1])
          /\ Outcomes(emitted) # <<>>
          /\ result[1] = Outcomes(emitted)[1]

\* C4 witness: weather() returned a Failure and the thread, still running,
\* emitted another outcome after it
C4_Witness ==
    /\ caller = "returned"
    /\ IsFailure(result[1])
    /\ Len(Outcomes(emitted)) >= 2
    /\ Outcomes(emitted)[2] # Outcomes(emitted)[1]

\* C5: update() can always be called (it does not wait for an item); on an
\* empty channel it returns None and leaves the channel as it was, otherwise
\* it returns Some(oldest pending item) and removes exactly that item.
C5_UpdateNeverBlocks ==
    /\ [](caller = "update" /\ rx = "alive" /\ updates < MaxUpdates => ENABLED update)
    /\ [][updates' # updates =>
            IF chan = <<>>
            THEN last_update' = None /\ chan' = chan /\ returned' = returned
            ELSE /\ last_update' = Some(Head(chan))
                 /\ chan' = Tail(chan)
                 /\ returned' = Append(returned, Head(chan))]_vars

\* C5 witness: update() has returned an item, and its latest call found the
\* channel empty while the thread was alive
C5_Witness ==
    /\ updates >= 2
    /\ returned # <<>>
    /\ last_update = None
    /\ pc = "request"

\* C6: what update() has returned is a prefix of what the thread emitted;
\* while the Receiver lives, the returned items followed by the pending ones
\* are exactly the emitted ones; n calls of update() return at most n items.
C6_ReturnedIsPrefixOfEmitted ==
    /\ IsPrefix(returned, emitted)
    /\ rx = "alive" => returned \o chan = emitted
    /\ caller \in {"update", "gone"} => Len(returned) <= updates

\* C6 witness: two items returned while two more are pending
C6_Witness ==
    /\ caller = "update"
    /\ Len(returned) >= 2
    /\ Len(chan) >= 2

---------------------------------------------------------------------------
(* C7..C9: how the outcome of a GET is classified *)

IsResponse(step) == step.op = "response" /\ step.arg.kind = "response"

\* the response is a 200 whose body was read and parses
IsGood(r) == r.status = OK /\ r.readable /\ from_str(r.body).ok

\* the one item the classification of C7 assigns to a response
Expected(r) ==
    IF r.status # OK THEN Err(StatusText(r.status)) ELSE from_str(r.body)

\* C7 as claimed: every response is followed by exactly one emission, the
\* one its status and body call for, and a Success is only ever emitted for
\* a 200 whose body parses.
C7_Original ==
    /\ \A i \in 1..Len(trace) :
          IsResponse(trace[i]) =>
              /\ i < Len(trace)
              /\ IsSend(trace[i + 1])
              /\ trace[i].arg.readable => trace[i + 1].arg = Expected(trace[i].arg)
              /\ i + 2 <= Len(trace) => ~IsSend(trace[i + 2])
    /\ \A i \in 1..Len(trace) :
          (IsSend(trace[i]) /\ IsSuccess(trace[i].arg)) =>
              /\ i > 1
              /\ IsResponse(trace[i - 1])
              /\ IsGood(trace[i - 1].arg)

\* C8 as claimed: with poll_mins > 0, between the emission of a Failure and
\* any later GET the thread has slept the period.
C8_Original ==
    IntervalMode =>
        \A i \in 1..Len(trace) : \A j \in (i + 1)..Len(trace) :
            (IsSend(trace[i]) /\ IsFailure(trace[i].arg) /\ IsGet(trace[j])) =>
                \E k \in (i + 1)..(j - 1) : trace[k] = Step("sleep", period)

\* C9 as claimed: the thread never panics, every response that is not a
\* good one is followed by the emission of a Failure, and the thread has
\* left its loop only in single-shot mode, after a Success.
C9_Original ==
    /\ pc # "panicked"
    /\ \A i \in 1..Len(trace) :
          (IsResponse(trace[i]) /\ ~IsGood(trace[i].arg)) =>
              /\ i < Len(trace)
              /\ IsSend(trace[i + 1])
              /\ IsFailure(trace[i + 1].arg)
    /\ pc \notin {"unspawned", "loading", "loop", "request", "sleep"} =>
          /\ pc = "exited"
          /\ poll_mins = 0
          /\ IsSuccess(Last(emitted))

---------------------------------------------------------------------------
(* C10: numeric locations, under SpecUrl *)

\* s is one or more of the digits 0..9
AllAsciiDigits(s) == s # <<>> /\ \A i \in 1..Len(s) : s[i] \in AsciiDigits

RECURSIVE Significant(_)
\* s without its leading zeros
Significant(s) ==
    IF s # <<>> /\ s[1] = "0" THEN Significant(Tail(s)) ELSE s

\* the number a digit string denotes is at most 18446744073709551615
ValueAtMostU64Max(s) ==
    LET sig == Significant(s)
    IN  \/ Len(sig) < Len(U64Max)
        \/ /\ Len(sig) = Len(U64Max)
           /\ LexLeq([i \in 1..Len(sig) |-> DigitValue(sig[i])], U64Max)

\* the URL that asks for location loc as an id
IdUrl(loc) ==
    <<Endpoint, "id=">> \o loc \o <<"&units=", units, "&lang=", lang, "&appid=", api_key>>

HasParam(u, key) == \E i \in 1..Len(u) : u[i] = key

IsIdRequest ==
    /\ url = IdUrl(location)
    /\ ~HasParam(url, "lat=")
    /\ ~HasParam(url, "&lon=")
    /\ ~HasParam(url, "q=")

\* C10 as claimed: every location made of decimal digits only is requested
\* as id=<location>.
C10_Original == (url # <<>> /\ AllAsciiDigits(location)) => IsIdRequest

\* C10 amended: every location made of the digits 0..9 only whose value is
\* at most u64::MAX = 18446744073709551615 is requested as id=<location>
\* followed by units, lang and appid, with no lat=, lon= or q= parameter.
C10_NumericWithinU64IsId ==
    (url # <<>> /\ AllAsciiDigits(location) /\ ValueAtMostU64Max(location)) =>
        IsIdRequest

\* C10 witness: the largest id, 18446744073709551615, requested as an id
C10_Witness ==
    /\ Len(location) = Len(U64Max)
    /\ AllAsciiDigits(location)
    /\ ValueAtMostU64Max(location)
    /\ url # <<>>
    /\ url[2] = "id="

---------------------------------------------------------------------------
(* C11, C12: coordinates and names, under SpecUrl.  The forms the claims   *)
(* speak of are stated here on the whole string, without the matcher.      *)

IsWhitespace(s) == \A i \in 1..Len(s) : s[i] \in {" ", "\t"}

\* s is: optional minus sign, digits, dot, digits, the digits from ds
IsDecimalIn(s, ds) ==
    LET k == IF s # <<>> /\ s[1] = "-" THEN 2 ELSE 1
    IN  \E d \in (k + 1)..(Len(s) - 1) :
            /\ s[d] = "."
            /\ \A i \in (k..(d - 1)) \cup ((d + 1)..Len(s)) : s[i] \in ds

\* the <<i, j>> for which s is a decimal s[1..i], whitespace, a comma,
\* whitespace and a decimal s[j..]
PairSplitsIn(s, ds) ==
    {ij \in (1..Len(s)) \X (1..Len(s)) :
        /\ ij[1] < ij[2]
        /\ IsDecimalIn(SubSeq(s, 1, ij[1]), ds)
        /\ IsDecimalIn(SubSeq(s, ij[2], Len(s)), ds)
        /\ \E c \in (ij[1] + 1)..(ij[2] - 1) :
              /\ s[c] = ","
              /\ IsWhitespace(SubSeq(s, ij[1] + 1, c - 1))
              /\ IsWhitespace(SubSeq(s, c + 1, ij[2] - 1))}

\* with the digits 0..9
PairSplits(s) == PairSplitsIn(s, AsciiDigits)

\* s has the form "<decimal>,<decimal>"
IsDecimalPair(s) == PairSplits(s) # {}

\* the URL that asks for latitude lat and longitude lon
CoordUrl(lat, lon) ==
    <<Endpoint, "lat=">> \o lat \o <<"&lon=">> \o lon
        \o <<"&units=", units, "&lang=", lang, "&appid=", api_key>>

\* C11: a location of the form "<decimal>,<decimal>" is requested with
\* lat=<first decimal> and lon=<second decimal>, sign and digits as given.
C11_DecimalPairIsCoordinates ==
    url # <<>> =>
        \A ij \in PairSplits(location) :
            url = CoordUrl(SubSeq(location, 1, ij[1]),
                           SubSeq(location, ij[2], Len(location)))

\* C11 witness: two negative decimals with whitespace on both sides of the
\* comma, requested as coordinates
C11_Witness ==
    /\ url # <<>>
    /\ IsDecimalPair(location)
    /\ location[1] = "-"
    /\ \E i \in 1..(Len(location) - 2) :
          location[i] = " " /\ location[i + 1] = "," /\ location[i + 2] = " "
                            /\ location[i + 3] = "-"
    /\ url[2] = "lat="

\* the URL that asks for location loc by name
NameUrl(loc) ==
    <<Endpoint, "q=">> \o loc \o <<"&units=", units, "&lang=", lang, "&appid=", api_key>>

\* the request carries exactly one of id=, lat= (with lon=) and q=
ExactlyOneClass ==
    /\ Cardinality({key \in {"id=", "lat=", "q="} : HasParam(url, key)}) = 1
    /\ HasParam(url, "&lon=") <=> HasParam(url, "lat=")

\* s is what parse::<u64> accepts, said without the parser: the digits
\* 0..9, at least one, optionally after one "+", of value at most u64::MAX
IsU64Literal(s) ==
    LET d == IF s # <<>> /\ s[1] = "+" THEN Tail(s) ELSE s
    IN  AllAsciiDigits(d) /\ ValueAtMostU64Max(d)

\* some substring of s has the form "<decimal>,<decimal>", the digits being
\* any decimal digits of Unicode
ContainsDecimalPair(s) ==
    \E i \in 1..Len(s) : \E j \in i..Len(s) :
        PairSplitsIn(SubSeq(s, i, j), {c \in Alphabet \cup AsciiDigits : IsRegexDigit(c)}) # {}

\* C12 as claimed: every location falls in exactly one class, and one that
\* is neither all digits nor of the form "<decimal>,<decimal>" is requested
\* as q=<location>.
C12_Original ==
    url # <<>> =>
        /\ ExactlyOneClass
        /\ (~AllAsciiDigits(location) /\ ~IsDecimalPair(location)) =>
              url = NameUrl(location)

\* C12 amended: every location falls in exactly one class, and one that
\* parse::<u64> rejects and that contains no substring of the form
\* "<decimal>,<decimal>" is requested as q=<location>, unchanged.
C12_OtherStringsAreNames ==
    url # <<>> =>
        /\ ExactlyOneClass
        /\ (~IsU64Literal(location) /\ ~ContainsDecimalPair(location)) =>
              url = NameUrl(location)

\* C12 witness: "Berlin,DE", requested by name with its comma and suffix
C12_Witness ==
    /\ url = NameUrl(location)
    /\ Len(location) = 9
    /\ location[1] = "B"
    /\ location[7] = ","

---------------------------------------------------------------------------
(* C13..C18: the caller and the thread, under Spec *)

\* C13 as claimed: the first call of update() returns Some(Err(LOADING)).
C13_Original == updates = 1 => last_update = Some(Err(LOADING))

\* where the thread stands after the steps of trace, whatever became of
\* the Receiver
OnCourse ==
    IF trace = <<>> THEN pc \in {"unspawned", "loading"}
    ELSE LET l == Last(trace)
         IN  CASE l.op = "get" -> pc = "request"
               [] l.op = "sleep" -> pc = "loop"
               [] l.op = "response" ->
                    pc = IF l.arg.kind = "error" THEN "loop" ELSE "panicked"
               [] l.op = "send" ->
                    pc = IF ~IsSuccess(l.arg) THEN "loop"
                         ELSE IF period = 0 THEN "exited" ELSE "sleep"

\* C14: once the Receiver is dropped nothing is queued any more, and the
\* thread stands where its own steps put it: a send that fails neither
\* panics nor stops it.
C14_DroppedReceiverIsIgnored ==
    rx = "dropped" => chan = <<>> /\ OnCourse

\* C14 witness: after the Receiver was dropped the thread emitted a Success,
\* slept the period and issued the next GET
C14_Witness ==
    /\ rx = "dropped"
    /\ dropped_at >= 0
    /\ \E i \in (dropped_at + 1)..(Len(trace) - 2) :
          /\ IsSend(trace[i]) /\ IsSuccess(trace[i].arg)
          /\ trace[i + 1] = Step("sleep", period)
          /\ IsGet(trace[i + 2])

---------------------------------------------------------------------------
(* C15: two sessions, under SpecTwo *)

\* the queue of the channel of session i
QueueOf(i) == channels[sessions[i].tx]

\* C15: the sessions have different channels; what the Receiver of a
\* session has returned, followed by what is pending on its channel, is
\* what the thread of that session emitted; and a step of one session's
\* thread or caller leaves the other session and its channel as they were.
C15_SessionsAreIndependent ==
    /\ [](\A i \in Sids : sessions[i].pc # "unspawned" =>
              /\ \A j \in Sids \ {i} : sessions[j].tx # sessions[i].tx
              /\ IsPrefix(sessions[i].returned, sessions[i].emitted)
              /\ sessions[i].rx = "alive" =>
                    sessions[i].returned \o QueueOf(i) = sessions[i].emitted
              /\ sessions[i].rx = "dropped" => QueueOf(i) = <<>>)
    /\ [][\A i \in Sids : sessions'[i] # sessions[i] =>
              \A j \in Sids \ {i} :
                  /\ sessions'[j] = sessions[j]
                  /\ sessions[j].pc # "unspawned" =>
                        channels'[sessions[j].tx] = QueueOf(j)]_vars

\* C15 witness: session 1 was polled, dropped and has stopped while
\* session 2 still has its items pending, one of them returned
C15_Witness ==
    /\ sessions[1].pc = "exited"
    /\ sessions[1].rx = "dropped"
    /\ sessions[1].returned # <<>>
    /\ sessions[2].rx = "alive"
    /\ Len(sessions[2].returned) = 1
    /\ Len(QueueOf(2)) = 1

---------------------------------------------------------------------------
(* C16..C18: what the loop does after each outcome, under Spec *)

IsTransportError(step) == step.op = "response" /\ step.arg.kind = "error"

\* the thread's step after trace[k] is a GET of the session's URL: it has
\* been taken, or the thread stands at the top of the loop about to take it
NextIsGet(k) ==
    IF k < Len(trace) THEN trace[k + 1] = Step("get", url) ELSE pc = "loop"

\* C16: in either mode a GET that fails in transport is followed by no
\* emission, no sleep and no exit: the thread's next step is a GET of the
\* same URL, however many transport errors came before.
C16_TransportErrorRetriesAtOnce ==
    /\ \A k \in 1..Len(trace) : IsTransportError(trace[k]) => NextIsGet(k)
    /\ \A g \in 1..Len(gets) : gets[g] = url
    /\ (\A k \in 1..Len(trace) : trace[k].op = "response" => IsTransportError(trace[k]))
          => /\ emitted \in {<<>>, <<Err(LOADING)>>}
             /\ pc \notin {"sleep", "exited", "panicked"}
             /\ \A k \in 1..Len(trace) : trace[k].op # "sleep"

\* C16 witness: every GET of the run failed in transport, and the thread is
\* back at the top of the loop having emitted the placeholder only
C16_Witness ==
    /\ Len(gets) = MaxGets
    /\ pc = "loop"
    /\ Len(SelectSeq(trace, IsTransportError)) = MaxGets
    /\ emitted = <<Err(LOADING)>>

IsSuccessSend(step) == IsSend(step) /\ IsSuccess(step.arg)
IsFailureSend(step) == IsSend(step) /\ IsFailure(step.arg)

C18_NoFailureIsFatal ==
    IntervalMode =>
        \A k \in 1..Len(trace) :
            /\ IsFailureSend(trace[k]) => NextIsGet(k)
            /\ (IsResponse(trace[k]) /\ IsGood(trace[k].arg)) =>
                  /\ k < Len(trace)
                  /\ trace[k + 1] = Step("send", from_str(trace[k].arg.body))
                  /\ IsSuccess(trace[k + 1].arg)

\* C18 witness: a Success after a status Failure and a parse Failure
C18_Witness ==
    /\ IntervalMode
    /\ Len(emitted) = 4
    /\ IsFailure(emitted[2]) /\ IsFailure(emitted[3]) /\ emitted[2] # emitted[3]
    /\ IsSuccess(emitted[4])

---------------------------------------------------------------------------
(* C19: termination of weather(), under FairSpec *)

\* the GET got a response from which the thread emits an item: any status
\* other than OK, or OK with a body that can be read
IsAnswered(step) ==
    IsResponse(step) /\ (step.arg.status = OK => step.arg.readable)

\* C19: weather() has returned only if the thread emitted a Success or a
\* Failure; while none is emitted a turn of its loop leaves it spinning
\* (transport errors only, or the thread dead before emitting); and once one
\* is emitted, as when a GET is answered with a readable body, it
\* eventually returns.
C19_WeatherReturnsIffOutcome ==
    /\ [](caller = "returned" => Outcomes(emitted) # <<>>)
    /\ [][(caller = "spin" /\ Outcomes(emitted) = <<>>) => caller' = "spin"]_vars
    /\ (caller = "spin" /\ Outcomes(emitted) # <<>>) ~> (caller = "returned")
    /\ (caller = "spin" /\ \E k \in 1..Len(trace) : IsAnswered(trace[k]))
           ~> (caller = "returned")

\* C19 witness: weather() returned the Success of a GET that followed a
\* transport error
C19_Witness ==
    /\ caller = "returned"
    /\ IsSuccess(result[1])
    /\ \E k \in 1..Len(trace) : IsTransportError(trace[k])
    /\ pc = "exited"

---------------------------------------------------------------------------
(* C20: the period for every poll_mins of u64, under SpecPeriod *)

\* C20 as claimed: for every poll_mins above zero init() does not fail, the
\* period is 60 * poll_mins and not zero, and the thread does not stop
\* after its first Success.
C20_Original ==
    (wide.poll_mins # Zero64 /\ wide.pc # "not called") =>
        /\ wide.pc \notin {"init panicked", "exited"}
        /\ wide.period # Zero64
        /\ wide.period \o <<0>> = MulLimbs(wide.poll_mins, 60, 0)

---------------------------------------------------------------------------
(* C21: polling after the thread has ended, under Spec *)

Min(a, b) == IF a < b THEN a ELSE b

\* the caller of update() made its first call after the single-shot thread
\* had exited, and still holds the Receiver
PolledAfterExit ==
    ZeroMode /\ caller = "update" /\ first_poll = "exited" /\ rx = "alive"

\* C21: when the first update() call comes after the single-shot thread has
\* exited, nothing the thread emitted is lost: the calls return the emitted
\* items one per call in emission order, Loading first and the Success last,
\* and the calls after the last item return None; and update() on an empty
\* channel returns None whether the thread has ended or is still running.
C21_ItemsSurviveThreadExit ==
    /\ [](PolledAfterExit =>
              /\ returned \o chan = emitted
              /\ Len(returned) = Min(updates, Len(emitted))
              /\ IsLoading(emitted[1]) /\ returned[1] = emitted[1]
              /\ IsSuccess(Last(emitted))
              /\ updates > Len(emitted) => last_update = None /\ returned = emitted)
    /\ [][(updates' # updates /\ chan = <<>>) =>
              (last_update' = None /\ returned' = returned /\ chan' = <<>>)]_vars

\* C21 witness: the first poll came after the exit, Loading and the Success
\* were received in that order, and the next call returned None
C21_Witness ==
    /\ PolledAfterExit
    /\ updates = 3
    /\ returned = <<Err(LOADING), from_str("report_a")>>
    /\ returned = emitted
    /\ last_update = None

=============================================================================
